---- MODULE Spec2Model ----
(***************************************************************************)
(* The server side of launch: the archive store (storage.rs), the bundle   *)
(* registry and its deploy pipeline (manager.rs), the proxy push and the   *)
(* ingress reconciliation (http.rs), and the request loop (http.rs,        *)
(* mod.rs).  The server is single threaded: one program counter, pc,       *)
(* walks through Server::new and then through one request at a time.       *)
(***************************************************************************)
EXTENDS Integers, Sequences, FiniteSets, TLC

(***************************************************************************)
(* Bounds of the model.                                                    *)
(***************************************************************************)
\* Number of requests the control server handles in a run.
MaxRequests == 2

\* Bundle identifiers (Ulid) and the domains a BundleConfig may declare.
Ids == {"id1", "id2"}
Domains == {"a.example", "b.example"}

(***************************************************************************)
(* Program constants.                                                      *)
(***************************************************************************)
\* http.rs: for _ in 0..10
MaxAttempts == 10
\* compressor.rs: min_size: 1_400
MinSize == 1400
\* compressor.rs: algorithms: vec![Brotli, Gzip]
Algorithms == <<"Brotli", "Gzip">>

(***************************************************************************)
(* Values.                                                                 *)
(***************************************************************************)
NoId == "none"
NoArchive == [kind |-> "none"]

\* An entry the directory walk yields: a directory or a file with its size,
\* its extension and the size each algorithm compresses it to.
DirEntry(size) == [file |-> FALSE, size |-> size, ext |-> "", out |-> <<0, 0>>]
FileEntry(size, ext, br, gz) == [file |-> TRUE, size |-> size, ext |-> ext, out |-> <<br, gz>>]

\* The sites an upload may carry: the BundleConfig fields other than the
\* domain, and the file tree (in walk order, the root directory first).
Sites == <<
  [compress |-> <<"html", "js">>, fallback |-> "none",
   tree |-> <<DirEntry(4096), FileEntry(2000, "html", 500, 600), FileEntry(100, "js", 90, 95)>>],
  [compress |-> <<"js">>, fallback |-> "/index.html",
   tree |-> <<DirEntry(4096), FileEntry(1400, "js", 700, 800), FileEntry(3000, "JS", 900, 1000),
              FileEntry(5000, "png", 4990, 4995)>>] >>

\* Archives: a well-formed tar (launch.config first, then the tree), a tar
\* without launch.config (or cut off before it), and a tar cut off after
\* launch.config.  Every domain comes with the first site, and the first
\* domain with every site.
OkArchives ==
  {a \in [kind : {"ok"}, domain : Domains, site : DOMAIN Sites] :
     a.domain = "a.example" \/ a.site = 1}
NoConfigArchive == [kind |-> "noconfig", domain |-> "", site |-> 0]
TruncatedArchives == [kind : {"truncated"}, domain : {"a.example"}, site : {1}]
Archives == OkArchives \cup {NoConfigArchive} \cup TruncatedArchives

\* io::Error: its ErrorKind and its Display text.
Err(kind, msg) == [kind |-> kind, msg |-> msg]
ErrNotFound == Err("NotFound", "No such file or directory")
ErrNoConfig == Err("NotFound", "no launch config found")
ErrDomain == Err("Other", "domain already in use by another bundle")
ErrUnpack == Err("Other", "failed to unpack")
ErrIo == Err("Other", "io error")

\* BundleStatus, and the absence of a key in the HashMap.
Absent == [kind |-> "Absent"]
Active(root, config, stats) == [kind |-> "Active", root |-> root, config |-> config, stats |-> stats]
Failed(e) == [kind |-> "Failed", error |-> e]

NoConfig == [domain |-> "", compress |-> <<>>, fallback |-> "none"]
NoStats == [size |-> 0, compressible |-> 0, compressed |-> <<>>]
NoFrame == [config |-> NoConfig, root |-> 0, stats |-> NoStats]
NoReload == [hosts |-> {}, answers |-> <<>>, attempts |-> 0, result |-> [ok |-> TRUE]]
NoResult == [ok |-> TRUE, body |-> "none"]
\* Request methods, and the urls a request can carry: "/", "/bundle/<ulid>",
\* "/bundle/<not a ulid>" and a url without the "/bundle/" prefix.
Methods == {"GET", "POST", "DELETE", "PUT"}
RootPath == [kind |-> "root", id |-> NoId]
BundlePath(id) == [kind |-> "bundle", id |-> id]
MalformedPath == [kind |-> "malformed", id |-> NoId]
UnknownPath == [kind |-> "unknown", id |-> NoId]
Paths == {RootPath, MalformedPath, UnknownPath} \cup {BundlePath(id) : id \in Ids}
NoReq == [method |-> "none", path |-> RootPath]
NoWalk == [tree |-> <<>>, filter |-> <<>>, result |-> "none", stats |-> NoStats, written |-> {}]
NoPass == [deploy_id |-> 0, applied |-> FALSE, before |-> <<>>]
NoPre == [bundles |-> [i \in Ids |-> Absent], store |-> [i \in Ids |-> NoArchive],
          dirs |-> <<>>]

VARIABLES
  store,     \* BundleStorage: Ids -> the archive file of the identifier
  bundles,   \* BundleManager.bundles: Ids -> BundleStatus
  dirs,      \* the temporary directories on disk: name -> content
  caddy,     \* the configuration the proxy last accepted (its hosts)
  ingress,   \* the cluster's ingress objects: domain -> deploy-id (0: none)
  kube,      \* Options.kube_service is Some
  pass,      \* reload_ingress's running pass: deploy-id, apply's outcome, objects before
  pc,        \* the position of the server thread
  ctx,       \* what the thread is running: "new", "post", "delete", "none"
  cur,       \* the identifier being deployed or deleted
  upload,    \* the body of the POST request being handled
  req,       \* method and url of the request being handled
  walk,      \* a run of Compressor::compress on its own: entries, filter, outcome
  todo,      \* load_all: the identifiers still to deploy
  dep,       \* deploy's locals: config, root, stats
  rc,        \* reload_config's locals: hosts, attempts, result
  hres,      \* the handler's result
  nreq,      \* requests received
  steps,     \* the steps run for the current deploy / request, with outcomes
  pre        \* registry, store and directories when the current request arrived

vars == <<store, bundles, dirs, caddy, ingress, kube, pass, req, walk, pc, ctx, cur,
          upload, todo, dep, rc, hres, nreq, steps, pre>>

disk == <<store, dirs>>
cluster == <<caddy, ingress, kube, pass>>
request == <<ctx, cur, upload, req, nreq, pre>>

(***************************************************************************)
(* Helpers on maps with a changing key set.                                *)
(***************************************************************************)
Put(f, k, v) == [x \in (DOMAIN f) \cup {k} |-> IF x = k THEN v ELSE f[x]]
Drop(f, k) == [x \in (DOMAIN f) \ {k} |-> f[x]]
EmptyMap == [x \in {} |-> 0]

\* A dropped BundleStatus leaving its directory behind.
DropStatusKeep(ds, status) == ds

\* Dropping a BundleStatus drops its TempDir, which removes the directory.
DropStatus(ds, status) == IF status.kind = "Active" THEN Drop(ds, status.root) ELSE ds

Step(name, outcome) == Append(steps, <<name, outcome>>)

(***************************************************************************)
(* compressor.rs                                                           *)
(***************************************************************************)
\* match_extension: the extension equals one of the list, ignoring case.
Lower(ext) == IF ext = "JS" THEN "js" ELSE IF ext = "HTML" THEN "html" ELSE ext
match_extension(entry, extensions) ==
  /\ entry.ext # ""
  /\ \E k \in DOMAIN extensions : Lower(entry.ext) = Lower(extensions[k])

\* The loop over the configured algorithms: total_compressed.insert(alg, n).
RECURSIVE InsertAll(_, _, _)
InsertAll(map, entry, k) ==
  IF k > Len(Algorithms) THEN map
  ELSE InsertAll(Put(map, Algorithms[k], entry.out[k]), entry, k + 1)

\* The loop counting into the total size only the entries it skips.
RECURSIVE compress_from_split(_, _, _, _)
compress_from_split(tree, filter, k, acc) ==
  IF k > Len(tree) THEN acc
  ELSE LET entry == tree[k] IN
       IF entry.size < MinSize \/ ~entry.file \/ ~match_extension(entry, filter)
       THEN compress_from_split(tree, filter, k + 1, [acc EXCEPT !.size = @ + entry.size])
       ELSE compress_from_split(tree, filter, k + 1,
              [acc EXCEPT !.compressible = @ + entry.size,
                          !.compressed = InsertAll(@, entry, 1)])

\* Compressor::compress over the entries of the walk.
RECURSIVE compress_from(_, _, _, _)
compress_from(tree, filter, k, acc) ==
  IF k > Len(tree) THEN acc
  ELSE LET entry == tree[k]
           sized == [acc EXCEPT !.size = @ + entry.size]
       IN IF entry.size < MinSize \/ ~entry.file \/ ~match_extension(entry, filter)
          THEN compress_from(tree, filter, k + 1, sized)
          ELSE compress_from(tree, filter, k + 1,
                 [sized EXCEPT !.compressible = @ + entry.size,
                               !.compressed = InsertAll(@, entry, 1)])

compress(tree, filter) ==
  compress_from(tree, filter, 1, [size |-> 0, compressible |-> 0, compressed |-> EmptyMap])

(***************************************************************************)
(* storage.rs                                                              *)
(***************************************************************************)
\* BundleStorage::enumerate: the identifiers with an archive file.
enumerate == {i \in Ids : store[i] # NoArchive}

\* metadata taking a missing archive for one with a default launch.config.
metadata_default(id) ==
  LET a == store[id] IN
  IF a = NoArchive
  THEN [ok |-> TRUE,
        config |-> [domain |-> "a.example", compress |-> Sites[1].compress,
                    fallback |-> Sites[1].fallback]]
  ELSE IF a.kind = "noconfig" THEN [ok |-> FALSE, err |-> ErrNoConfig]
  ELSE [ok |-> TRUE,
        config |-> [domain |-> a.domain, compress |-> Sites[a.site].compress,
                    fallback |-> Sites[a.site].fallback]]

\* BundleStorage::metadata: the BundleConfig of launch.config, or an error.
metadata(id) ==
  LET a == store[id] IN
  IF a = NoArchive THEN [ok |-> FALSE, err |-> ErrNotFound]
  ELSE IF a.kind = "noconfig" THEN [ok |-> FALSE, err |-> ErrNoConfig]
  ELSE [ok |-> TRUE,
        config |-> [domain |-> a.domain, compress |-> Sites[a.site].compress,
                    fallback |-> Sites[a.site].fallback]]

\* BundleStorage::unpack: the tree lands in the destination, or an error.
unpack(id) ==
  LET a == store[id] IN
  IF a = NoArchive THEN [ok |-> FALSE, err |-> ErrNotFound]
  ELSE IF a.kind = "truncated" THEN [ok |-> FALSE, err |-> ErrUnpack]
  ELSE [ok |-> TRUE, site |-> a.site]

(***************************************************************************)
(* manager.rs                                                              *)
(***************************************************************************)
\* BundleManager::verify_bundle: the domains of the Active entries of the
\* other identifiers must not contain the new domain.
active_domains(id) ==
  {bundles[i].config.domain : i \in {j \in Ids : j # id /\ bundles[j].kind = "Active"}}

\* verify_bundle with the filter turned round: only the own entry is compared.
verify_bundle_own(id, config) ==
  IF bundles[id].kind = "Active" /\ bundles[id].config.domain = config.domain
  THEN [ok |-> FALSE, err |-> ErrDomain]
  ELSE [ok |-> TRUE]

\* verify_bundle without the filter on the identifier.
verify_bundle_all(id, config) ==
  IF \E i \in Ids : bundles[i].kind = "Active" /\ bundles[i].config.domain = config.domain
  THEN [ok |-> FALSE, err |-> ErrDomain]
  ELSE [ok |-> TRUE]

verify_bundle(id, config) ==
  IF config.domain \in active_domains(id)
  THEN [ok |-> FALSE, err |-> ErrDomain]
  ELSE [ok |-> TRUE]

\* The order with unpack before verify_bundle.
AfterStepUnpackFirst(step) ==
  CASE step = "add" -> "metadata"
    [] step = "metadata" -> "tempdir"
    [] step = "tempdir" -> "unpack"
    [] step = "unpack" -> "verify"
    [] step = "verify" -> "compress"
    [] step = "compress" -> "insert"
    [] step = "store_remove" -> "mgr_remove"
    [] step = "mgr_remove" -> "reload_config"
    [] step = "reload_config" -> "reload_ingress"
    [] OTHER -> "respond"

\* handle_delete going from storage.remove straight to reload_config.
AfterStepNoRemove(step) ==
  CASE step = "add" -> "metadata"
    [] step = "metadata" -> "tempdir"
    [] step = "tempdir" -> "verify"
    [] step = "verify" -> "unpack"
    [] step = "unpack" -> "compress"
    [] step = "compress" -> "insert"
    [] step = "store_remove" -> "reload_config"
    [] step = "mgr_remove" -> "reload_config"
    [] step = "reload_config" -> "reload_ingress"
    [] OTHER -> "respond"

\* The order with handle_delete going from the removal straight to the ingress.
AfterStepNoProxy(step) ==
  CASE step = "add" -> "metadata"
    [] step = "metadata" -> "tempdir"
    [] step = "tempdir" -> "verify"
    [] step = "verify" -> "unpack"
    [] step = "unpack" -> "compress"
    [] step = "compress" -> "insert"
    [] step = "store_remove" -> "mgr_remove"
    [] step = "mgr_remove" -> "reload_ingress"
    [] step = "reload_config" -> "reload_ingress"
    [] OTHER -> "respond"

\* The order of the steps in handle_post, deploy and handle_delete.
AfterStep(step) ==
  CASE step = "add" -> "metadata"
    [] step = "metadata" -> "tempdir"
    [] step = "tempdir" -> "verify"
    [] step = "verify" -> "unpack"
    [] step = "unpack" -> "compress"
    [] step = "compress" -> "insert"
    [] step = "store_remove" -> "mgr_remove"
    [] step = "mgr_remove" -> "reload_config"
    [] step = "reload_config" -> "reload_ingress"
    [] OTHER -> "respond"

\* deploy's failure recorded as a Failed status by every caller.
DeployErrRecord(name, e) ==
  /\ dirs' = IF dep.root # 0 THEN Drop(dirs, dep.root) ELSE dirs
  /\ dep' = NoFrame
  /\ steps' = Step(name, "err")
  /\ bundles' = [bundles EXCEPT ![cur] = Failed(e.msg)]
  /\ IF ctx = "new"
     THEN /\ pc' = "load"
          /\ hres' = hres
     ELSE /\ pc' = "respond"
          /\ hres' = [ok |-> FALSE, body |-> e.msg]

\* deploy's failure discarding the entry of the identifier in a handler.
DeployErrDiscard(name, e) ==
  /\ dirs' = DropStatus(IF dep.root # 0 THEN Drop(dirs, dep.root) ELSE dirs,
                        IF ctx = "new" THEN Absent ELSE bundles[cur])
  /\ dep' = NoFrame
  /\ steps' = Step(name, "err")
  /\ IF ctx = "new"
     THEN /\ bundles' = [bundles EXCEPT ![cur] = Failed(e.msg)]
          /\ pc' = "load"
          /\ hres' = hres
     ELSE /\ bundles' = [bundles EXCEPT ![cur] = Absent]
          /\ pc' = "respond"
          /\ hres' = [ok |-> FALSE, body |-> e.msg]

\* deploy's failure propagated by load_all (self.deploy(id)?).
DeployErrPropagate(name, e) ==
  /\ dirs' = IF dep.root # 0 THEN Drop(dirs, dep.root) ELSE dirs
  /\ dep' = NoFrame
  /\ steps' = Step(name, "err")
  /\ bundles' = bundles
  /\ hres' = [ok |-> FALSE, body |-> e.msg]
  /\ pc' = IF ctx = "new" THEN "crashed" ELSE "respond"

\* deploy(id) returned Err(e).  Its TempDir, if allocated, is dropped.
\* load_all records a Failed status and goes on; handle_post returns the
\* error to listen, and the registry is not touched.
DeployErr(name, e) ==
  /\ dirs' = IF dep.root # 0 THEN Drop(dirs, dep.root) ELSE dirs
  /\ dep' = NoFrame
  /\ steps' = Step(name, "err")
  /\ IF ctx = "new"
     THEN /\ bundles' = [bundles EXCEPT ![cur] = Failed(e.msg)]
          /\ pc' = "load"
          /\ hres' = hres
     ELSE /\ bundles' = bundles
          /\ pc' = "respond"
          /\ hres' = [ok |-> FALSE, body |-> e.msg]

Init ==
  /\ store \in [Ids -> Archives \cup {NoArchive}]
  /\ bundles = [i \in Ids |-> Absent]
  /\ dirs = EmptyMap
  /\ caddy = {}
  /\ ingress = [d \in Domains |-> 0]
  /\ kube \in BOOLEAN
  /\ pass = NoPass
  /\ walk = NoWalk
  /\ pc = "start"
  /\ ctx = "new"
  /\ cur = NoId
  /\ upload = NoArchive
  /\ req = NoReq
  /\ todo = {}
  /\ dep = NoFrame
  /\ rc = NoReload
  /\ hres = NoResult
  /\ nreq = 0
  /\ steps = <<>>
  /\ pre = NoPre

(***************************************************************************)
(* Server::new: BundleStorage::new, then load_all.                         *)
(***************************************************************************)
\* run() unwraps Server::new with expect: an Err ends the process.
Crash(name) ==
  /\ pc' = "crashed"
  /\ steps' = Step(name, "err")

\* BundleStorage::new (create_dir_all) and load_all's enumerate.
ServerNew ==
  /\ pc = "start"
  /\ \/ /\ \E name \in {"storage_new", "enumerate"} : Crash(name)
        /\ UNCHANGED todo
     \/ /\ todo' = enumerate
        /\ pc' = "load"
        /\ steps' = steps
  /\ UNCHANGED <<disk, bundles, cluster, walk, request, dep, rc, hres>>

\* load_all: the next identifier of the enumeration (read_dir order).
LoadAllNext ==
  /\ pc = "load"
  /\ \E id \in todo :
       /\ cur' = id
       /\ todo' = todo \ {id}
  /\ pc' = "metadata"
  /\ steps' = <<>>
  /\ UNCHANGED <<disk, bundles, cluster, walk, ctx, upload, req, nreq, pre, dep, rc, hres>>

\* load_all returns Ok(()); Server::new goes on to reload_config.
LoadAllDone ==
  /\ pc = "load"
  /\ todo = {}
  /\ cur' = NoId
  /\ pc' = "reload_config"
  /\ steps' = <<>>
  /\ UNCHANGED <<disk, bundles, cluster, walk, ctx, upload, req, nreq, pre, todo, dep, rc, hres>>

(***************************************************************************)
(* BundleManager::deploy, one step per action.                             *)
(***************************************************************************)
\* let config = self.storage.metadata(id)?;  Reading the entries of an
\* archive that File::open opened may fail; a missing file is NotFound.
DeployMetadata ==
  /\ pc = "metadata"
  /\ \E io \in IF store[cur] = NoArchive THEN {FALSE} ELSE BOOLEAN :
       LET r == IF io THEN [ok |-> FALSE, err |-> ErrIo] ELSE metadata(cur) IN
       IF r.ok
       THEN /\ dep' = [dep EXCEPT !.config = r.config]
            /\ pc' = AfterStep("metadata")
            /\ steps' = Step("metadata", "ok")
            /\ UNCHANGED <<dirs, bundles, hres>>
       ELSE DeployErr("metadata", r.err)
  /\ UNCHANGED <<store, cluster, walk, request, todo, rc>>

\* TempDir::with_prefix names the directory after a process-wide counter, so
\* a name is never used twice.  A name that nothing refers to any more (no
\* directory, no host of the proxy's configuration) cannot be told from a
\* new one, so the new name is the first such name.
FreshDir ==
  LET used == (DOMAIN dirs) \cup {h.root : h \in caddy}
  IN CHOOSE n \in 1..(Cardinality(used) + 1) :
       /\ n \notin used
       /\ \A m \in 1..(n - 1) : m \in used

\* let root = TempDir::with_prefix("launch-")?;
DeployTempDir ==
  /\ pc = "tempdir"
  /\ \/ /\ dirs' = Put(dirs, FreshDir, [site |-> 0, sidecars |-> FALSE])
        /\ dep' = [dep EXCEPT !.root = FreshDir]
        /\ pc' = AfterStep("tempdir")
        /\ steps' = Step("tempdir", "ok")
        /\ UNCHANGED <<bundles, hres>>
     \/ DeployErr("tempdir", ErrIo)
  /\ UNCHANGED <<store, cluster, walk, request, todo, rc>>

\* self.verify_bundle(id, &config)?;
DeployVerify ==
  /\ pc = "verify"
  /\ LET r == verify_bundle(cur, dep.config) IN
     IF r.ok
     THEN /\ pc' = AfterStep("verify")
          /\ steps' = Step("verify", "ok")
          /\ UNCHANGED <<dirs, dep, bundles, hres>>
     ELSE DeployErr("verify", r.err)
  /\ UNCHANGED <<store, cluster, walk, request, todo, rc>>

\* self.storage.unpack(id, path)?;
DeployUnpack ==
  /\ pc = "unpack"
  /\ \E io \in BOOLEAN :
       LET r == IF io THEN [ok |-> FALSE, err |-> ErrIo] ELSE unpack(cur) IN
       IF r.ok
       THEN /\ dirs' = [dirs EXCEPT ![dep.root] = [site |-> r.site, sidecars |-> FALSE]]
            /\ pc' = AfterStep("unpack")
            /\ steps' = Step("unpack", "ok")
            /\ UNCHANGED <<dep, bundles, hres>>
       ELSE DeployErr("unpack", r.err)
  /\ UNCHANGED <<store, cluster, walk, request, todo, rc>>

\* let stats = self.compressor.compress(path, &config.compress)?;
DeployCompress ==
  /\ pc = "compress"
  /\ \/ /\ dep' = [dep EXCEPT !.stats =
                     compress(Sites[dirs[dep.root].site].tree, dep.config.compress)]
        /\ dirs' = [dirs EXCEPT ![dep.root].sidecars = TRUE]
        /\ pc' = AfterStep("compress")
        /\ steps' = Step("compress", "ok")
        /\ UNCHANGED <<bundles, hres>>
     \/ DeployErr("compress", ErrIo)
  /\ UNCHANGED <<store, cluster, walk, request, todo, rc>>

\* self.bundles.insert(id, BundleStatus::Active(bundle)); Ok(stats)
\* The status the insert replaces is dropped.
DeployInsert ==
  /\ pc = "insert"
  /\ bundles' = [bundles EXCEPT ![cur] = Active(dep.root, dep.config, dep.stats)]
  /\ dirs' = DropStatus(dirs, bundles[cur])
  /\ dep' = NoFrame
  /\ steps' = Step("insert", "ok")
  /\ IF ctx = "new"
     THEN /\ pc' = "load"
          /\ hres' = hres
     ELSE /\ pc' = "reload_config"
          /\ hres' = [ok |-> TRUE, body |-> dep.stats]
  /\ UNCHANGED <<store, cluster, walk, request, todo, rc>>

(***************************************************************************)
(* Server::reload_config: the hosts of the Active entries are submitted to *)
(* the proxy, up to MaxAttempts times.                                     *)
(***************************************************************************)
\* hosts yielding the HostConfig of one Active entry only.
hosts_one ==
  LET act == {j \in Ids : bundles[j].kind = "Active"} IN
  IF act = {} THEN {}
  ELSE LET i == CHOOSE j \in act : TRUE
       IN {[domain |-> bundles[i].config.domain, root |-> bundles[i].root,
            fallback |-> bundles[i].config.fallback, compression |-> Algorithms]}

\* BundleManager::hosts: one HostConfig per Active entry.
hosts ==
  {[domain |-> bundles[i].config.domain, root |-> bundles[i].root,
    fallback |-> bundles[i].config.fallback, compression |-> Algorithms] :
     i \in {j \in Ids : bundles[j].kind = "Active"}}

\* BundleManager::domains: the domain of every Active entry.
domains == {bundles[i].config.domain : i \in {j \in Ids : bundles[j].kind = "Active"}}

\* What the proxy may answer to POST {endpoint}/load when it rejects it.
ProxyErrors == {"connection refused", "status code 500"}

\* reload_config or reload_ingress returned Err(msg) to its caller's `?`:
\* Server::new fails and run() panics; a handler returns the error.
ReloadErr(name, msg) ==
  /\ steps' = Step(name, "err")
  /\ IF ctx = "new"
     THEN /\ pc' = "crashed"
          /\ hres' = hres
     ELSE /\ pc' = "respond"
          /\ hres' = [ok |-> FALSE, body |-> msg]

\* The result of one config.apply(): result = ...map_err(...)
ApplyResult(answer, k) ==
  IF answer = "ok" THEN [ok |-> TRUE]
  ELSE [ok |-> FALSE, err |-> [attempt |-> k, msg |-> answer]]

\* The loop keeping the first error instead of the last.
RECURSIVE apply_loop_first(_, _, _)
apply_loop_first(answers, k, result) ==
  IF k > MaxAttempts THEN [attempts |-> k - 1, result |-> result]
  ELSE LET r == ApplyResult(answers[k], k) IN
       IF r.ok THEN [attempts |-> k, result |-> r]
       ELSE apply_loop_first(answers, k + 1, IF result.ok THEN r ELSE result)

\* for _ in 0..10 { result = apply; if result.is_ok() { return Ok(()) }; sleep }
\* result
\* answers[k] is what the proxy answers to the k-th submission.
RECURSIVE apply_loop(_, _, _)
apply_loop(answers, k, result) ==
  IF k > MaxAttempts THEN [attempts |-> k - 1, result |-> result]
  ELSE LET r == ApplyResult(answers[k], k) IN
       IF r.ok THEN [attempts |-> k, result |-> r]
       ELSE apply_loop(answers, k + 1, r)

reload_config(answers) == apply_loop(answers, 1, [ok |-> TRUE])

\* The proxy's answers the server model runs through: it accepts the n-th
\* submission, or none.
AnswerCases ==
  {[k \in 1..MaxAttempts |-> IF k < n THEN "connection refused" ELSE "ok"] :
     n \in {1, MaxAttempts}}
  \cup {[k \in 1..MaxAttempts |-> IF k < MaxAttempts THEN "connection refused"
                                   ELSE "status code 500"]}

\* Server::reload_config, called by Server::new and by the handlers, with the
\* answers the proxy gives to its submissions.
ReloadConfigWith(answers) ==
  LET out == reload_config(answers) IN
  /\ rc' = [hosts |-> hosts, answers |-> answers, attempts |-> out.attempts,
            result |-> out.result]
  /\ IF out.result.ok
     THEN /\ caddy' = hosts
          /\ pc' = AfterStep("reload_config")
          /\ steps' = Step("proxy", "ok")
          /\ hres' = hres
     ELSE /\ caddy' = caddy
          /\ ReloadErr("proxy", out.result.err.msg)

ReloadConfig ==
  /\ pc = "reload_config"
  /\ \E answers \in AnswerCases : ReloadConfigWith(answers)
  /\ UNCHANGED <<disk, bundles, ingress, kube, walk, pass, request, todo, dep>>

(***************************************************************************)
(* Server::reload_ingress and INGRESS_UPDATE_SCRIPT.                       *)
(***************************************************************************)
\* kubectl apply -f $INGRESS_PATH: one object launch-{domain} per manifest,
\* annotated with the deploy-id.
kubectl_apply(objects, doms, deploy_id) ==
  [d \in Domains |-> IF d \in doms THEN deploy_id ELSE objects[d]]

\* kubectl delete ingress $OLD_INGRESS: the objects whose deploy-id differs.
kubectl_delete_old_all(objects, deploy_id) == [d \in Domains |-> 0]

kubectl_delete_old(objects, deploy_id) ==
  [d \in Domains |-> IF objects[d] # deploy_id THEN 0 ELSE objects[d]]

\* let deploy_id = Ulid::new().to_string(): an identifier no earlier pass
\* used.  Identifiers no ingress object carries any more cannot be told from
\* a new one, so the new identifier is the first such identifier.
DeployId ==
  LET used == {ingress[d] : d \in Domains}
  IN CHOOSE n \in 1..(Cardinality(used) + 1) :
       /\ n \notin used
       /\ \A m \in 1..(n - 1) : m \in used

\* The script's exit status returned as an error.
ingress_result_strict(success) == [ok |-> success]

\* if !status.success() { eprintln!("Failed to run ingress update script") }
\* Ok(())
ingress_result(success) == [ok |-> TRUE]

\* Server::reload_ingress up to the first command of the script.  Without a
\* service name it does nothing.  Else it mints the deploy-id and renders the
\* manifests; TempDir::new()?, fs::write()?, spawn()? may fail; the script
\* starts with kubectl apply, which may fail, and goes on whatever it returned.
ReloadIngress ==
  /\ pc = "reload_ingress"
  /\ \/ /\ ~kube
        /\ UNCHANGED <<ingress, pass, hres>>
        /\ steps' = Step("ingress", "ok")
        /\ pc' = IF ctx = "new" THEN "listen" ELSE "respond"
     \/ /\ kube
        /\ UNCHANGED <<ingress, pass>>
        /\ \E what \in {"manifest dir", "manifest write", "spawn"} :
             ReloadErr("ingress", what)
     \/ /\ kube
        /\ \E applied \in BOOLEAN :
             /\ ingress' = IF applied THEN kubectl_apply(ingress, domains, DeployId)
                           ELSE ingress
             /\ pass' = [deploy_id |-> DeployId, applied |-> applied, before |-> ingress]
        /\ pc' = "ingress_delete"
        /\ UNCHANGED <<steps, hres>>
  /\ rc' = NoReload
  /\ UNCHANGED <<disk, bundles, caddy, kube, walk, request, todo, dep>>

\* The rest of the script and of reload_ingress: kubectl get and kubectl
\* delete of the objects with another deploy-id; the exit status of the script
\* is that of this last command.
IngressDelete ==
  /\ pc = "ingress_delete"
  /\ \E deleted \in BOOLEAN :
       LET r == ingress_result(deleted) IN
       /\ ingress' = IF deleted THEN kubectl_delete_old(ingress, pass.deploy_id)
                     ELSE ingress
       /\ IF r.ok
          THEN /\ steps' = Step("ingress", IF deleted THEN "ok" ELSE "exit")
               /\ hres' = hres
               /\ pc' = IF ctx = "new" THEN "listen" ELSE "respond"
          ELSE ReloadErr("ingress", "script failed")
  /\ pass' = NoPass
  /\ UNCHANGED <<disk, bundles, caddy, kube, walk, request, todo, dep, rc>>

(***************************************************************************)
(* Server::listen: one request at a time.                                  *)
(***************************************************************************)
\* tiny_http::Server::http(...).expect("failed to bind")
Listen ==
  /\ pc = "listen"
  /\ \/ /\ pc' = "idle"
        /\ steps' = <<>>
     \/ Crash("bind")
  /\ ctx' = "none"
  /\ UNCHANGED <<disk, bundles, cluster, walk, cur, upload, req, nreq, pre, todo, dep, rc, hres>>

\* request.url().strip_prefix("/bundle/").map(Ulid::from_string): the
\* identifier when the url is "/bundle/" followed by a well-formed one.
url_bundle_id(path) == IF path.kind = "bundle" THEN path.id ELSE NoId

\* The branch of listen's if / else if / else and of its match that a
\* request takes; the method is compared before the url is looked at.
route(method, path) ==
  IF method = "GET" THEN "get"
  ELSE IF url_bundle_id(path) # NoId
       THEN CASE method = "POST" -> "post"
              [] method = "DELETE" -> "delete"
              [] OTHER -> "other"
       ELSE "notfound"

\* A POST /bundle/{id} arrives: Post => self.handle_post(&mut request, id)
ReceivePost ==
  /\ pc = "idle"
  /\ nreq < MaxRequests
  /\ \E method \in Methods, path \in Paths, body \in Archives :
       /\ route(method, path) = "post"
       /\ req' = [method |-> method, path |-> path]
       /\ cur' = url_bundle_id(path)
       /\ upload' = body
  /\ ctx' = "post"
  /\ pc' = "add"
  /\ nreq' = nreq + 1
  /\ pre' = [bundles |-> bundles, store |-> store, dirs |-> dirs]
  /\ UNCHANGED <<disk, bundles, cluster, walk, todo, dep, rc, hres, steps>>

\* A DELETE taken up before the previous request's ingress pass has run.
ReceiveDeleteEarly ==
  /\ pc \in {"idle", "reload_ingress"}
  /\ nreq < MaxRequests
  /\ \E method \in Methods, path \in Paths :
       /\ route(method, path) = "delete"
       /\ req' = [method |-> method, path |-> path]
       /\ cur' = url_bundle_id(path)
  /\ ctx' = "delete"
  /\ pc' = "store_remove"
  /\ nreq' = nreq + 1
  /\ pre' = [bundles |-> bundles, store |-> store, dirs |-> dirs]
  /\ UNCHANGED <<disk, bundles, cluster, walk, upload, todo, dep, rc, hres, steps>>

\* A DELETE /bundle/{id} arrives: Delete => self.handle_delete(&mut request, id)
ReceiveDelete ==
  /\ pc = "idle"
  /\ nreq < MaxRequests
  /\ \E method \in Methods, path \in Paths :
       /\ route(method, path) = "delete"
       /\ req' = [method |-> method, path |-> path]
       /\ cur' = url_bundle_id(path)
  /\ ctx' = "delete"
  /\ pc' = "store_remove"
  /\ nreq' = nreq + 1
  /\ pre' = [bundles |-> bundles, store |-> store, dirs |-> dirs]
  /\ UNCHANGED <<disk, bundles, cluster, walk, upload, todo, dep, rc, hres, steps>>

\* A request of method Get arrives, whatever its url: handle_get serializes
\* manager.bundles(); the body stands for the registry as it is.
ReceiveGet ==
  /\ pc = "idle"
  /\ nreq < MaxRequests
  /\ \E method \in Methods, path \in Paths :
       /\ route(method, path) = "get"
       /\ req' = [method |-> method, path |-> path]
  /\ ctx' = "get"
  /\ hres' = [ok |-> TRUE, body |-> "listing"]
  /\ pc' = "respond"
  /\ nreq' = nreq + 1
  /\ pre' = [bundles |-> bundles, store |-> store, dirs |-> dirs]
  /\ UNCHANGED <<disk, bundles, cluster, walk, cur, upload, todo, dep, rc, steps>>

\* Another method on /bundle/{id}: the match's `_ => Ok("OK".into())`.
ReceiveOther ==
  /\ pc = "idle"
  /\ nreq < MaxRequests
  /\ \E method \in Methods, path \in Paths :
       /\ route(method, path) = "other"
       /\ req' = [method |-> method, path |-> path]
       /\ cur' = url_bundle_id(path)
  /\ ctx' = "other"
  /\ hres' = [ok |-> TRUE, body |-> "OK"]
  /\ pc' = "respond"
  /\ nreq' = nreq + 1
  /\ pre' = [bundles |-> bundles, store |-> store, dirs |-> dirs]
  /\ UNCHANGED <<disk, bundles, cluster, walk, upload, todo, dep, rc, steps>>

\* No "/bundle/" prefix or no well-formed identifier after it, and a method
\* other than Get: the else branch, "Not found" with status code 404.
ReceiveNotFound ==
  /\ pc = "idle"
  /\ nreq < MaxRequests
  /\ \E method \in Methods, path \in Paths :
       /\ route(method, path) = "notfound"
       /\ req' = [method |-> method, path |-> path]
  /\ ctx' = "notfound"
  /\ hres' = [ok |-> TRUE, body |-> "Not found"]
  /\ pc' = "respond"
  /\ nreq' = nreq + 1
  /\ pre' = [bundles |-> bundles, store |-> store, dirs |-> dirs]
  /\ UNCHANGED <<disk, bundles, cluster, walk, cur, upload, todo, dep, rc, steps>>

\* The status code of the response listen builds: 404 in the else branch,
\* else 200 for Ok(payload) and 500 for Err(e).
status_code == IF ctx = "notfound" THEN 404 ELSE IF hres.ok THEN 200 ELSE 500

\* A handler's `?` on a storage call: the error goes back to listen.
HandlerErr(name, e) ==
  /\ steps' = Step(name, "err")
  /\ pc' = "respond"
  /\ hres' = [ok |-> FALSE, body |-> e.msg]

\* What a copy that breaks off leaves in the file File::create truncated.
Partial(body) ==
  {NoConfigArchive} \cup
  (IF body.kind = "noconfig" THEN {} ELSE {[body EXCEPT !.kind = "truncated"]} \cap Archives)

\* BundleStorage::add: File::create, io::copy, sync_all.
StorageAdd ==
  /\ pc = "add"
  /\ \/ /\ store' = [store EXCEPT ![cur] = upload]
        /\ pc' = AfterStep("add")
        /\ steps' = Step("add", "ok")
        /\ hres' = hres
     \/ /\ store' = store
        /\ HandlerErr("add", ErrIo)
     \/ /\ \E left \in Partial(upload) : store' = [store EXCEPT ![cur] = left]
        /\ HandlerErr("add", ErrIo)
  /\ UNCHANGED <<dirs, bundles, cluster, walk, request, todo, dep, rc>>

\* remove returning the NotFound error of a missing file like any other.
StorageRemoveStrict ==
  /\ pc = "store_remove"
  /\ \/ /\ store[cur] # NoArchive
        /\ store' = [store EXCEPT ![cur] = NoArchive]
        /\ pc' = AfterStep("store_remove")
        /\ steps' = Step("store_remove", "ok")
        /\ hres' = hres
     \/ /\ store' = store
        /\ HandlerErr("store_remove", IF store[cur] = NoArchive THEN ErrNotFound ELSE ErrIo)
  /\ UNCHANGED <<dirs, bundles, cluster, walk, request, todo, dep, rc>>

\* BundleStorage::remove: a missing file is Ok, any other error is returned.
StorageRemove ==
  /\ pc = "store_remove"
  /\ \/ /\ store' = [store EXCEPT ![cur] = NoArchive]
        /\ pc' = AfterStep("store_remove")
        /\ steps' = Step("store_remove", "ok")
        /\ hres' = hres
     \/ /\ store[cur] # NoArchive
        /\ store' = store
        /\ HandlerErr("store_remove", ErrIo)
  /\ UNCHANGED <<dirs, bundles, cluster, walk, request, todo, dep, rc>>

\* remove clearing the whole registry.
ManagerRemoveAll ==
  /\ pc = "mgr_remove"
  /\ bundles' = [i \in Ids |-> Absent]
  /\ dirs' = EmptyMap
  /\ hres' = [ok |-> TRUE, body |-> "Deleted"]
  /\ pc' = AfterStep("mgr_remove")
  /\ steps' = Step("mgr_remove", "ok")
  /\ UNCHANGED <<store, cluster, walk, request, todo, dep, rc>>

\* remove leaving the entry in the registry.
ManagerRemoveKeep ==
  /\ pc = "mgr_remove"
  /\ bundles' = bundles
  /\ dirs' = dirs
  /\ hres' = [ok |-> TRUE, body |-> "Deleted"]
  /\ pc' = AfterStep("mgr_remove")
  /\ steps' = Step("mgr_remove", "ok")
  /\ UNCHANGED <<store, cluster, walk, request, todo, dep, rc>>

\* BundleManager::remove: self.bundles.remove(&id); the status is dropped.
ManagerRemove ==
  /\ pc = "mgr_remove"
  /\ bundles' = [bundles EXCEPT ![cur] = Absent]
  /\ dirs' = DropStatus(dirs, bundles[cur])
  /\ hres' = [ok |-> TRUE, body |-> "Deleted"]
  /\ pc' = AfterStep("mgr_remove")
  /\ steps' = Step("mgr_remove", "ok")
  /\ UNCHANGED <<store, cluster, walk, request, todo, dep, rc>>

\* listen: Ok(payload) => 200, Err(e) => 500 with e.to_string().
Respond ==
  /\ pc = "respond"
  /\ pc' = "idle"
  /\ ctx' = "none"
  /\ cur' = NoId
  /\ upload' = NoArchive
  /\ req' = NoReq
  /\ pre' = NoPre
  /\ steps' = <<>>
  /\ hres' = NoResult
  /\ rc' = NoReload
  /\ UNCHANGED <<disk, bundles, cluster, walk, todo, dep, nreq>>

Next ==
  \/ ServerNew
  \/ LoadAllNext
  \/ LoadAllDone
  \/ DeployMetadata
  \/ DeployTempDir
  \/ DeployVerify
  \/ DeployUnpack
  \/ DeployCompress
  \/ DeployInsert
  \/ ReloadConfig
  \/ ReloadIngress
  \/ IngressDelete
  \/ Listen
  \/ ReceivePost
  \/ ReceiveDelete
  \/ ReceiveGet
  \/ ReceiveOther
  \/ ReceiveNotFound
  \/ StorageAdd
  \/ StorageRemove
  \/ ManagerRemove
  \/ Respond

Spec == Init /\ [][Next]_vars

(***************************************************************************)
(* reload_config on its own: the retry loop against every sequence of      *)
(* answers the proxy can give, entered from a DELETE on an empty server.   *)
(***************************************************************************)
Answers == {"ok"} \cup ProxyErrors

InitReload ==
  /\ store = [i \in Ids |-> NoArchive]
  /\ bundles = [i \in Ids |-> Absent]
  /\ dirs = EmptyMap
  /\ caddy = {}
  /\ ingress = [d \in Domains |-> 0]
  /\ kube = FALSE
  /\ pass = NoPass
  /\ walk = NoWalk
  /\ pc = "reload_config"
  /\ ctx = "delete"
  /\ cur = "id1"
  /\ upload = NoArchive
  /\ req = [method |-> "DELETE", path |-> BundlePath("id1")]
  /\ todo = {}
  /\ dep = NoFrame
  /\ rc \in {[NoReload EXCEPT !.answers = a] : a \in [1..MaxAttempts -> Answers]}
  /\ hres = [ok |-> TRUE, body |-> "Deleted"]
  /\ nreq = 1
  /\ steps = <<<<"store_remove", "ok">>, <<"mgr_remove", "ok">>>>
  /\ pre = [bundles |-> bundles, store |-> store, dirs |-> dirs]

ReloadConfigGiven ==
  /\ pc = "reload_config"
  /\ ReloadConfigWith(rc.answers)
  /\ UNCHANGED <<disk, bundles, ingress, kube, walk, pass, request, todo, dep>>

SpecReload == InitReload /\ [][ReloadConfigGiven]_vars

(***************************************************************************)
(* Compressor::compress on its own, over every walk of up to MaxEntries    *)
(* entries below the root directory and every extension list of Filters.   *)
(***************************************************************************)
\* Number of entries below the root directory.
MaxEntries == 3

\* What the walk may yield below the root: directories, and files below, at
\* and above the minimum size, with and without an extension, in either
\* case, that shrink under compression or grow (data without redundancy).
Entries ==
  {DirEntry(4096),
   FileEntry(0, "html", 1, 20),
   FileEntry(1399, "html", 400, 450),
   FileEntry(1400, "html", 700, 800),
   FileEntry(3000, "HTML", 900, 1000),
   FileEntry(1500, "js", 1504, 1523),
   FileEntry(5000, "png", 4990, 4995),
   FileEntry(2000, "", 600, 650)}

Filters == {<<>>, <<"html">>, <<"HTML", "js">>}

\* WalkDir::new(dir) yields dir itself first, then what is below it.
Walks ==
  {<<DirEntry(4096)>> \o below :
     below \in UNION {[1..n -> Entries] : n \in 0..MaxEntries}}

\* The side-car files a run writes: Compressor::apply for each algorithm on
\* each entry the loop does not skip, <<entry, algorithm>> standing for the
\* file at path.with_extension("<ext>.<algorithm extension>").
applied(tree, filter) ==
  {<<k, a>> : k \in {j \in DOMAIN tree :
                       ~(tree[j].size < MinSize \/ ~tree[j].file
                         \/ ~match_extension(tree[j], filter))},
              a \in DOMAIN Algorithms}

InitCompress ==
  /\ store = [i \in Ids |-> NoArchive]
  /\ bundles = [i \in Ids |-> Absent]
  /\ dirs = EmptyMap
  /\ caddy = {}
  /\ ingress = [d \in Domains |-> 0]
  /\ kube = FALSE
  /\ pass = NoPass
  /\ walk \in {[NoWalk EXCEPT !.tree = t, !.filter = f] : t \in Walks, f \in Filters}
  /\ pc = "compress"
  /\ ctx = "call"
  /\ cur = NoId
  /\ upload = NoArchive
  /\ req = NoReq
  /\ todo = {}
  /\ dep = NoFrame
  /\ rc = NoReload
  /\ hres = NoResult
  /\ nreq = 0
  /\ steps = <<>>
  /\ pre = NoPre

\* compress returns Ok(Statistics), or Err at an entry (entry?, metadata()?,
\* apply()?) with the side-car files written before it left in place.
CompressRun ==
  /\ pc = "compress"
  /\ walk.result = "none"
  /\ \/ walk' = [walk EXCEPT !.result = "ok",
                             !.stats = compress(walk.tree, walk.filter),
                             !.written = applied(walk.tree, walk.filter)]
     \/ \E e \in DOMAIN walk.tree :
          walk' = [walk EXCEPT !.result = "err",
                               !.written = applied(SubSeq(walk.tree, 1, e - 1), walk.filter)]
  /\ pc' = "returned"
  /\ UNCHANGED <<disk, bundles, cluster, request, todo, dep, rc, hres, steps>>

SpecCompress == InitCompress /\ [][CompressRun]_vars

(***************************************************************************)
(* The BundleManager and its BundleStorage called directly, without the    *)
(* server around them: storage.remove(id) and deploy(id) on one            *)
(* identifier, in any order, over every content of the store.  steps is    *)
(* the log of all calls.                                                   *)
(***************************************************************************)
\* Number of calls made on the manager.
MaxCalls == 4

InitManager ==
  /\ store \in [Ids -> Archives \cup {NoArchive}]
  /\ bundles = [i \in Ids |-> Absent]
  /\ dirs = EmptyMap
  /\ caddy = {}
  /\ ingress = [d \in Domains |-> 0]
  /\ kube = FALSE
  /\ pass = NoPass
  /\ walk = NoWalk
  /\ pc = "call"
  /\ ctx = "call"
  /\ cur \in Ids
  /\ upload = NoArchive
  /\ req = NoReq
  /\ todo = {}
  /\ dep = NoFrame
  /\ rc = NoReload
  /\ hres = NoResult
  /\ nreq = 0
  /\ steps = <<>>
  /\ pre = [bundles |-> bundles, store |-> store, dirs |-> dirs]

\* self.storage.remove(id): a missing file is Ok, any other error is returned.
CallStorageRemove ==
  /\ pc = "call"
  /\ nreq < MaxCalls
  /\ \/ /\ store' = [store EXCEPT ![cur] = NoArchive]
        /\ steps' = Step("store_remove", "ok")
        /\ hres' = [ok |-> TRUE, body |-> "none"]
     \/ /\ store[cur] # NoArchive
        /\ store' = store
        /\ steps' = Step("store_remove", "err")
        /\ hres' = [ok |-> FALSE, body |-> ErrIo.msg]
  /\ nreq' = nreq + 1
  /\ pre' = [bundles |-> bundles, store |-> store, dirs |-> dirs]
  /\ UNCHANGED <<dirs, bundles, cluster, walk, pc, ctx, cur, upload, req, todo, dep, rc>>

\* manager.deploy(id) is entered.
CallDeploy ==
  /\ pc = "call"
  /\ nreq < MaxCalls
  /\ pc' = "metadata"
  /\ nreq' = nreq + 1
  /\ pre' = [bundles |-> bundles, store |-> store, dirs |-> dirs]
  /\ hres' = NoResult
  /\ UNCHANGED <<disk, bundles, cluster, walk, ctx, cur, upload, req, todo, dep, rc, steps>>

\* deploy is back at its caller: with Err(e) (where a handler would go on to
\* respond) or with Ok(stats) (where it would go on to reload_config).
DeployReturned == ctx = "call" /\ pc \in {"respond", "reload_config"}

CallReturn ==
  /\ DeployReturned
  /\ pc' = "call"
  /\ UNCHANGED <<disk, bundles, cluster, walk, request, todo, dep, rc, hres, steps>>

NextManager ==
  \/ CallStorageRemove
  \/ CallDeploy
  \/ DeployMetadata
  \/ DeployTempDir
  \/ DeployVerify
  \/ DeployUnpack
  \/ DeployCompress
  \/ DeployInsert
  \/ CallReturn

SpecManager == InitManager /\ [][NextManager]_vars

(***************************************************************************)
(* What the steps of the current request say.                              *)
(***************************************************************************)
Ran(name) == \E k \in DOMAIN steps : steps[k][1] = name
Passed(name) == \E k \in DOMAIN steps : steps[k][1] = name /\ steps[k][2] # "err"
FailedAt(name) == steps # <<>> /\ steps[Len(steps)] = <<name, "err">>
Position(name) == CHOOSE k \in DOMAIN steps : steps[k][1] = name
IsActive(status) == status.kind = "Active"

(***************************************************************************)
(* C1.  No two distinct identifiers are Active with the same domain, and   *)
(* verify_bundle lets a deploy pass exactly when no Active entry of        *)
(* another identifier holds the new domain.                                *)
(***************************************************************************)
HeldByOther(id, domain) ==
  \E j \in Ids \ {id} : IsActive(bundles[j]) /\ bundles[j].config.domain = domain

C1_UniqueActiveDomain ==
  /\ \A i, j \in Ids :
       (i # j /\ IsActive(bundles[i]) /\ IsActive(bundles[j]))
         => bundles[i].config.domain # bundles[j].config.domain
  /\ pc = "unpack" => ~HeldByOther(cur, dep.config.domain)
  /\ (pc \in {"load", "respond"} /\ FailedAt("verify")) => HeldByOther(cur, store[cur].domain)

\* Both identifiers are Active after a POST that succeeded.
C1_Witness ==
  /\ pc = "respond" /\ ctx = "post" /\ hres.ok
  /\ \A i \in Ids : IsActive(bundles[i])

(***************************************************************************)
(* C2.  A POST of id2 whose domain an Active id1 holds.                    *)
(***************************************************************************)
ConflictRejected == pc = "respond" /\ ctx = "post" /\ FailedAt("verify")

\* C2 as stated: the entries of the other identifiers are unchanged and id2
\* is mapped to a Failed status carrying the domain-conflict error.
C2_AsStated ==
  ConflictRejected =>
    /\ \A i \in Ids \ {cur} : bundles[i] = pre.bundles[i]
    /\ bundles[cur] = Failed(ErrDomain.msg)

\* C2 as amended: the registry and the extraction directories are what they
\* were before the request (id2 keeps the status it had, none if it is new),
\* and the request answers with the domain-conflict error.
C2_ConflictLeavesRegistry ==
  ConflictRejected =>
    /\ bundles = pre.bundles
    /\ dirs = pre.dirs
    /\ hres = [ok |-> FALSE, body |-> ErrDomain.msg]

\* The conflicting upload of an identifier the registry did not know.
C2_Witness ==
  /\ ConflictRejected
  /\ pre.bundles[cur] = Absent
  /\ \E i \in Ids \ {cur} : IsActive(bundles[i])

(***************************************************************************)
(* C3.  A POST whose deploy fails at read-config, verify-domain, unpack or *)
(* compress.                                                               *)
(***************************************************************************)
DeployFailedInPost ==
  /\ pc = "respond" /\ ctx = "post"
  /\ \E name \in {"metadata", "verify", "unpack", "compress"} : FailedAt(name)

\* C3 as stated: the registry maps id to Failed with the error description,
\* whatever status it had before.
C3_AsStated ==
  DeployFailedInPost => (bundles[cur].kind = "Failed" /\ bundles[cur].error = hres.body)

\* C3 as amended: the request answers with the error description and the
\* registry is what it was before the request: id keeps the status it had,
\* an Active one included.
C3_FailedDeployLeavesRegistry ==
  DeployFailedInPost =>
    /\ bundles = pre.bundles
    /\ ~hres.ok
    /\ hres.body \in {ErrNotFound.msg, ErrNoConfig.msg, ErrDomain.msg, ErrUnpack.msg, ErrIo.msg}

\* The unpack of a re-upload fails for an identifier that was Active.
C3_Witness ==
  /\ DeployFailedInPost
  /\ FailedAt("unpack")
  /\ IsActive(pre.bundles[cur])

(***************************************************************************)
(* C4.  As stated: when a POST or DELETE ends with an error response, the  *)
(* registry is what it was before the request, or differs only in that id  *)
(* is now Failed.                                                          *)
(***************************************************************************)
C4_AsStated ==
  (pc = "respond" /\ ctx \in {"post", "delete"} /\ ~hres.ok) =>
    \/ bundles = pre.bundles
    \/ /\ bundles[cur].kind = "Failed"
       /\ \A i \in Ids \ {cur} : bundles[i] = pre.bundles[i]

(***************************************************************************)
(* C5.  While a POST re-deploys an identifier that was Active, the         *)
(* registry maps it to an Active status at every step: the old one until   *)
(* the insert, the new one after it; and an upload declaring the domain    *)
(* the identifier held passes verify_bundle.                               *)
(***************************************************************************)
C5_RedeployStaysActive ==
  (ctx = "post" /\ IsActive(pre.bundles[cur])) =>
    /\ IsActive(bundles[cur])
    /\ IF Passed("insert")
       THEN /\ bundles[cur].root # pre.bundles[cur].root
            /\ bundles[cur].config.domain = upload.domain
       ELSE bundles[cur] = pre.bundles[cur]
    /\ upload.domain = pre.bundles[cur].config.domain => ~FailedAt("verify")

\* The re-deploy onto the own domain has gone through.
C5_Witness ==
  /\ pc = "respond" /\ ctx = "post" /\ hres.ok
  /\ IsActive(pre.bundles[cur])
  /\ upload.domain = pre.bundles[cur].config.domain
  /\ bundles[cur].root # pre.bundles[cur].root

(***************************************************************************)
(* C6.  load_all gives every enumerated identifier an Active status or a   *)
(* Failed status with a non-empty error, and a deploy that fails neither   *)
(* stops it nor makes Server::new fail.                                    *)
(***************************************************************************)
Loaded(i) ==
  \/ IsActive(bundles[i])
  \/ bundles[i].kind = "Failed" /\ bundles[i].error # ""

C6_LoadAllContainsFailures ==
  /\ (ctx = "new" /\ pc = "load") => \A i \in enumerate \ todo : Loaded(i)
  /\ (ctx = "new" /\ pc \in {"reload_config", "reload_ingress", "listen"})
       => \A i \in enumerate : Loaded(i)
  /\ (pc = "idle" /\ nreq = 0) => \A i \in enumerate : Loaded(i)
  /\ (ctx = "new" /\ pc = "crashed")
       => steps[Len(steps)][1] \in {"storage_new", "enumerate", "proxy", "ingress", "bind"}

\* load_all has returned with one identifier Active and the other Failed.
C6_Witness ==
  /\ ctx = "new" /\ pc = "reload_config"
  /\ \E i, j \in Ids : IsActive(bundles[i]) /\ bundles[j].kind = "Failed"

(***************************************************************************)
(* C7.  The steps of a POST run in the order store, (read config, make     *)
(* the directory,) verify, unpack, compress, activate, proxy, ingress,     *)
(* and no step runs after one that failed.                                 *)
(***************************************************************************)
PostOrder ==
  <<"add", "metadata", "tempdir", "verify", "unpack", "compress", "insert", "proxy", "ingress">>

C7_PostStepOrder ==
  ctx = "post" =>
    /\ Len(steps) <= Len(PostOrder)
    /\ \A k \in DOMAIN steps : steps[k][1] = PostOrder[k]
    /\ \A k \in DOMAIN steps : k < Len(steps) => steps[k][2] = "ok"
    /\ pc \notin {"respond", "idle"} => pc \in {"add", "metadata", "tempdir", "verify", "unpack",
                                                 "compress", "insert", "reload_config",
                                                 "reload_ingress", "ingress_delete"}

\* A POST has run all its steps.
C7_Witness ==
  /\ pc = "respond" /\ ctx = "post"
  /\ Len(steps) = Len(PostOrder)

(***************************************************************************)
(* C8.  reload_config submits the configuration at most MaxAttempts times, *)
(* stops at the first submission the proxy accepts and returns Ok, and     *)
(* when all are rejected returns the error of the last one.                *)
(***************************************************************************)
C8_BoundedRetry ==
  pc # "reload_config" =>
    LET a == rc.answers
        n == rc.attempts
    IN /\ n \in 1..MaxAttempts
       /\ \A j \in 1..(n - 1) : a[j] # "ok"
       /\ rc.result.ok <=> a[n] = "ok"
       /\ rc.result.ok => (caddy = rc.hosts /\ pc = "reload_ingress")
       /\ ~rc.result.ok =>
            /\ n = MaxAttempts
            /\ rc.result.err = [attempt |-> MaxAttempts, msg |-> a[MaxAttempts]]
            /\ pc = "respond"
            /\ hres = [ok |-> FALSE, body |-> a[MaxAttempts]]

\* Every submission was rejected, the last one differently from the first.
C8_Witness ==
  /\ pc = "respond"
  /\ rc.attempts = MaxAttempts
  /\ ~rc.result.ok
  /\ rc.answers[1] # rc.answers[MaxAttempts]

(***************************************************************************)
(* C9.  A request that changed the registry (the insert of a POST, the     *)
(* removal of a DELETE).                                                   *)
(***************************************************************************)
RegistryChanged ==
  /\ pc = "respond" /\ ctx \in {"post", "delete"}
  /\ Passed("insert") \/ Passed("mgr_remove")

\* C9 as stated: both reconciliation steps have run, the proxy push first.
C9_AsStated ==
  RegistryChanged =>
    /\ Ran("proxy") /\ Ran("ingress")
    /\ Position("proxy") < Position("ingress")

\* C9 as amended: the proxy push has run, and the ingress reconciliation has
\* run after it exactly when the proxy push succeeded.
C9_ReconcileAfterChange ==
  RegistryChanged =>
    /\ Ran("proxy")
    /\ Ran("ingress") <=> Passed("proxy")
    /\ Ran("ingress") => Position("proxy") < Position("ingress")

\* A DELETE removed the entry and the proxy rejected every submission.
C9_Witness ==
  /\ RegistryChanged
  /\ ctx = "delete"
  /\ FailedAt("proxy")

(***************************************************************************)
(* C10.  Which reconciliation failures make the request fail.              *)
(***************************************************************************)
\* C10 as stated: a failed proxy push ends the request with an error, and a
\* request that got as far as the ingress reconciliation never does.
C10_AsStated ==
  (pc = "respond" /\ ctx \in {"post", "delete"}) =>
    /\ FailedAt("proxy") => ~hres.ok
    /\ Ran("ingress") => hres.ok

\* C10 as amended: a failed proxy push ends the request with an error; a
\* non-zero exit of the update script does not; a failure to create or write
\* the manifest or to launch the script does.
C10_ReconcileFailures ==
  (pc = "respond" /\ ctx \in {"post", "delete"}) =>
    /\ FailedAt("proxy") => ~hres.ok
    /\ (Ran("ingress") /\ ~FailedAt("ingress")) => hres.ok
    /\ FailedAt("ingress") =>
         (~hres.ok /\ hres.body \in {"manifest dir", "manifest write", "spawn"})

\* The update script exited non-zero and the request succeeded.
C10_Witness ==
  /\ pc = "respond" /\ ctx = "post"
  /\ steps[Len(steps)] = <<"ingress", "exit">>
  /\ hres.ok

(***************************************************************************)
(* C11.  With a target service, an ingress pass mints one deploy-id that   *)
(* no existing object carries; its first command applies an object with    *)
(* that id for every Active domain and deletes nothing; only the second    *)
(* command deletes, and what it deletes are the objects with another id.   *)
(* When both commands succeed the objects are exactly one per Active       *)
(* domain, all with the new id.  Without a target service the pass leaves  *)
(* the objects alone.                                                      *)
(***************************************************************************)
C11_Step ==
  /\ (pc = "reload_ingress" /\ ~kube) => ingress' = ingress /\ pc' # "ingress_delete"
  /\ (pc = "reload_ingress" /\ pc' = "ingress_delete") =>
       /\ kube
       /\ pass'.deploy_id # 0
       /\ \A d \in Domains : ingress[d] # pass'.deploy_id
       /\ pass'.before = ingress
       /\ \A d \in Domains \ domains : ingress'[d] = ingress[d]
       /\ \A d \in domains :
            ingress'[d] = IF pass'.applied THEN pass'.deploy_id ELSE ingress[d]
  /\ pc = "ingress_delete" =>
       /\ \A d \in Domains : ingress'[d] \in {ingress[d], 0}
       /\ \A d \in Domains : ingress[d] = pass.deploy_id => ingress'[d] = ingress[d]
       /\ (pass.applied /\ steps' # <<>> /\ steps'[Len(steps')] = <<"ingress", "ok">>) =>
            ingress' = [d \in Domains |-> IF d \in domains THEN pass.deploy_id ELSE 0]
  /\ pc \notin {"reload_ingress", "ingress_delete"} => ingress' = ingress

C11_IngressPass == [][C11_Step]_vars

\* a DELETE of an Active bundle whose pass succeeded: its object is gone and
\* the remaining Active domains all carry one deploy-id
C11_Witness ==
  /\ pc = "respond" /\ ctx = "delete" /\ kube
  /\ steps # <<>> /\ steps[Len(steps)] = <<"ingress", "ok">>
  /\ IsActive(pre.bundles[cur])
  /\ domains # {}
  /\ ingress[pre.bundles[cur].config.domain] = 0
  /\ \E g \in 1..(Cardinality(Domains) + 1) : \A d \in domains : ingress[d] = g

(***************************************************************************)
(* C12.  Which requests get which answer.                                  *)
(***************************************************************************)
\* C12 as stated: the listing is the answer to GET / only, handle_post and
\* handle_delete run only for POST and DELETE on /bundle/{id} with a
\* well-formed identifier, and every other request is answered with 404 and
\* leaves registry and store as they were.
C12_AsStated ==
  pc = "respond" =>
    LET get_root == req.method = "GET" /\ req.path = RootPath
        on_bundle == req.method \in {"POST", "DELETE"} /\ url_bundle_id(req.path) # NoId
    IN /\ hres.body = "listing" => get_root
       /\ ctx \in {"post", "delete"} => on_bundle
       /\ (~get_root /\ ~on_bundle) =>
            /\ status_code = 404
            /\ bundles = pre.bundles
            /\ store = pre.store

(***************************************************************************)
(* C13.  Once storage.remove(id) has returned Ok, the archive of id is     *)
(* gone, enumerate() does not list id, and every later deploy(id) returns  *)
(* the NotFound error of metadata's File::open, at its first step, and     *)
(* leaves the registry and the directories as they were when it was called.*)
(***************************************************************************)
Removed == \E k \in DOMAIN steps : steps[k] = <<"store_remove", "ok">>

C13_RemoveThenDeploy ==
  Removed =>
    /\ store[cur] = NoArchive
    /\ cur \notin enumerate
    /\ metadata(cur) = [ok |-> FALSE, err |-> ErrNotFound]
    /\ \A k \in DOMAIN steps :
         (steps[k] = <<"store_remove", "ok">> /\ k < Len(steps)) =>
           steps[k + 1][1] \in {"store_remove", "metadata"}
    /\ \A j \in DOMAIN steps :
         (steps[j][1] = "metadata" /\ \E k \in 1..(j - 1) : steps[k] = <<"store_remove", "ok">>) =>
           steps[j] = <<"metadata", "err">>
    /\ (DeployReturned /\ steps[Len(steps)][1] # "store_remove") =>
         /\ hres = [ok |-> FALSE, body |-> ErrNotFound.msg]
         /\ bundles = pre.bundles
         /\ dirs = pre.dirs

\* deploy succeeded, then the archive was removed, then deploy failed: the
\* Active entry of the first deploy is still there, and no new one
C13_Witness ==
  /\ DeployReturned
  /\ Len(steps) >= 3
  /\ steps[Len(steps) - 1] = <<"store_remove", "ok">>
  /\ steps[Len(steps)] = <<"metadata", "err">>
  /\ \E k \in DOMAIN steps : steps[k] = <<"insert", "ok">>

(***************************************************************************)
(* C14.  When DELETE /bundle/{id} is answered with success, id is in       *)
(* neither the registry nor the store, the other entries are what they     *)
(* were, the request submitted a configuration that the proxy accepted,    *)
(* and that configuration has exactly one host per remaining Active entry, *)
(* with its extraction root: no host when none remains.  When id was the   *)
(* only entry, the registry a following GET lists is empty.                *)
(***************************************************************************)
C14_DeleteSucceeded ==
  (pc = "respond" /\ ctx = "delete" /\ hres.ok) =>
    /\ hres.body = "Deleted" /\ status_code = 200
    /\ bundles[cur] = Absent
    /\ store[cur] = NoArchive
    /\ \A i \in Ids \ {cur} : bundles[i] = pre.bundles[i]
    /\ Passed("proxy")
    /\ caddy = hosts
    /\ {h.root : h \in caddy} = {bundles[i].root : i \in {j \in Ids : IsActive(bundles[j])}}
    /\ Cardinality(caddy) = Cardinality({j \in Ids : IsActive(bundles[j])})
    /\ (\A i \in Ids : ~IsActive(bundles[i])) => caddy = {}
    /\ (\A i \in Ids \ {cur} : pre.bundles[i] = Absent) => bundles = [i \in Ids |-> Absent]

\* the only entry, an Active one, was deleted: empty registry, no host
C14_Witness ==
  /\ pc = "respond" /\ ctx = "delete" /\ hres.ok
  /\ IsActive(pre.bundles[cur])
  /\ \A i \in Ids \ {cur} : pre.bundles[i] = Absent
  /\ bundles = [i \in Ids |-> Absent]
  /\ caddy = {}

(***************************************************************************)
(* C15.  The Statistics a compression run returns.                         *)
(***************************************************************************)
AlgorithmSet == {Algorithms[a] : a \in DOMAIN Algorithms}

\* C15 as stated: every configured algorithm's compressed size is at most
\* compressible, compressible is at most size, and when compressible is 0
\* every configured algorithm is in the map with 0.
C15_AsStated ==
  walk.result = "ok" =>
    LET s == walk.stats IN
    /\ s.compressible <= s.size
    /\ \A a \in AlgorithmSet :
         /\ a \in DOMAIN s.compressed => s.compressed[a] <= s.compressible
         /\ s.compressible = 0 => (a \in DOMAIN s.compressed /\ s.compressed[a] = 0)

\* C15 as amended: compressible is at most size; the map has an entry for
\* every configured algorithm when a file was compressed and none when no
\* file was, which is when compressible is 0; and every entry is at most
\* compressible when no compressed copy is larger than its file.
C15_Statistics ==
  walk.result = "ok" =>
    LET s == walk.stats IN
    /\ s.compressible <= s.size
    /\ s.compressible = 0 <=> walk.written = {}
    /\ DOMAIN s.compressed = IF walk.written = {} THEN {} ELSE AlgorithmSet
    /\ (\A w \in walk.written : walk.tree[w[1]].out[w[2]] <= walk.tree[w[1]].size) =>
         \A a \in DOMAIN s.compressed : s.compressed[a] <= s.compressible

\* a run that compressed two files, each of them to a smaller copy
C15_Witness ==
  /\ walk.result = "ok"
  /\ Cardinality({w[1] : w \in walk.written}) >= 2
  /\ \A w \in walk.written : walk.tree[w[1]].out[w[2]] < walk.tree[w[1]].size
  /\ \A a \in AlgorithmSet : walk.stats.compressed[a] <= walk.stats.compressible

(***************************************************************************)
(* C16.  Every Active entry has an extraction directory that exists and    *)
(* that no other Active entry and no deploy in progress has; the           *)
(* directories that exist are those of the Active entries and the one of   *)
(* the deploy in progress, so a directory goes exactly when its status is  *)
(* replaced or removed; and once a deploy has failed, its directory is     *)
(* gone.                                                                   *)
(***************************************************************************)
ActiveRoots == {bundles[i].root : i \in {j \in Ids : IsActive(bundles[j])}}

C16_OwnedDirectories ==
  /\ \A i \in Ids : IsActive(bundles[i]) =>
       /\ bundles[i].root \in DOMAIN dirs
       /\ bundles[i].root # dep.root
       /\ \A j \in Ids \ {i} : IsActive(bundles[j]) => bundles[j].root # bundles[i].root
  /\ DOMAIN dirs = ActiveRoots \cup (IF dep.root # 0 THEN {dep.root} ELSE {})
  /\ (\E name \in {"metadata", "tempdir", "verify", "unpack", "compress"} : FailedAt(name)) =>
       /\ dep = NoFrame
       /\ DOMAIN dirs = ActiveRoots

\* a re-upload of an Active identifier failed after its directory was made:
\* the directory of the Active entry is there, the new one is not
C16_Witness ==
  /\ pc = "respond" /\ ctx = "post"
  /\ FailedAt("unpack")
  /\ IsActive(bundles[cur])
  /\ DOMAIN dirs = ActiveRoots

(***************************************************************************)
(* C17.  In every step the status of an identifier stays what it is or     *)
(* makes one of the transitions absent -> Active, absent -> Failed,        *)
(* Active -> Active, Failed -> Active, Active -> absent, Failed -> absent. *)
(* It becomes Active only by the insert at the end of a deploy all of      *)
(* whose steps passed, absent only by the remove of a DELETE, and Failed   *)
(* only in load_all, before the first request: so no request, and no       *)
(* sequence of requests, turns an Active identifier into a Failed one.     *)
(***************************************************************************)
Transitions ==
  {<<"Absent", "Active">>, <<"Absent", "Failed">>, <<"Active", "Active">>,
   <<"Failed", "Active">>, <<"Active", "Absent">>, <<"Failed", "Absent">>}

C17_Step ==
  \A i \in Ids :
    bundles'[i] # bundles[i] =>
      /\ <<bundles[i].kind, bundles'[i].kind>> \in Transitions
      /\ i = cur
      /\ bundles'[i].kind = "Active" =>
           /\ pc = "insert"
           /\ \A name \in {"metadata", "tempdir", "verify", "unpack", "compress"} :
                <<name, "ok">> \in {steps[k] : k \in DOMAIN steps}
      /\ bundles'[i].kind = "Absent" => (pc = "mgr_remove" /\ ctx = "delete")
      /\ bundles'[i].kind = "Failed" => (ctx = "new" /\ nreq = 0)

C17_StatusTransitions == [][C17_Step]_vars

\* a POST made a Failed identifier Active
C17_Witness ==
  /\ pc = "respond" /\ ctx = "post"
  /\ pre.bundles[cur].kind = "Failed"
  /\ IsActive(bundles[cur])

(***************************************************************************)
(* C18.  What becomes of the server when the proxy rejected all            *)
(* MaxAttempts submissions.                                                *)
(***************************************************************************)
\* C18 as stated: the error is reported and the server process goes on,
\* during a request and during startup alike.
C18_AsStated == FailedAt("proxy") => pc # "crashed"

(***************************************************************************)
(* C19.  The compressed size a run reports for an algorithm.               *)
(***************************************************************************)
\* The entries of the walk that the run compressed.
Compressed == {w[1] : w \in walk.written}

RECURSIVE SumOut(_, _, _)
SumOut(tree, ks, a) ==
  IF ks = {} THEN 0
  ELSE LET k == CHOOSE x \in ks : TRUE
       IN tree[k].out[a] + SumOut(tree, ks \ {k}, a)

RECURSIVE SumSize(_, _)
SumSize(tree, ks) ==
  IF ks = {} THEN 0
  ELSE LET k == CHOOSE x \in ks : TRUE
       IN tree[k].size + SumSize(tree, ks \ {k})

\* C19 as stated: for each configured algorithm the reported size is the sum
\* of the sizes of that algorithm's side-car files over all compressed files.
C19_AsStated ==
  walk.result = "ok" =>
    \A a \in DOMAIN Algorithms :
      LET reported == IF Algorithms[a] \in DOMAIN walk.stats.compressed
                      THEN walk.stats.compressed[Algorithms[a]] ELSE 0
      IN reported = SumOut(walk.tree, Compressed, a)

(***************************************************************************)
(* C20.  What a run counts and which side-car files it writes.             *)
(***************************************************************************)
\* C20 as stated: size is the sum of the sizes of the files, directories
\* not counted; an entry gets side-car files and is counted as compressible
\* exactly when it is a regular file of at least MinSize bytes whose
\* extension is in the list (compared without regard to case).
C20_AsStated ==
  walk.result = "ok" =>
    LET files == {k \in DOMAIN walk.tree : walk.tree[k].file}
        eligible == {k \in files : /\ walk.tree[k].size >= MinSize
                                   /\ \E x \in DOMAIN walk.filter :
                                        Lower(walk.filter[x]) = Lower(walk.tree[k].ext)}
    IN /\ walk.stats.size = SumSize(walk.tree, files)
       /\ walk.stats.compressible = SumSize(walk.tree, eligible)
       /\ walk.written = eligible \X (DOMAIN Algorithms)

(***************************************************************************)
(* C21.  Right after manager.remove(id): the store is what storage.remove  *)
(* left (the request's store but for the archive of id), id has no entry,  *)
(* every other identifier has the status it had, the directories are those *)
(* of before but for the one of id's Active entry, each with its content,  *)
(* and when id had no entry, registry and directories are what they were.  *)
(***************************************************************************)
JustRemoved == steps # <<>> /\ steps[Len(steps)] = <<"mgr_remove", "ok">>

C21_RemoveFrame ==
  JustRemoved =>
    /\ store = [pre.store EXCEPT ![cur] = NoArchive]
    /\ bundles[cur] = Absent
    /\ \A i \in Ids \ {cur} : bundles[i] = pre.bundles[i]
    /\ dirs = DropStatus(pre.dirs, pre.bundles[cur])
    /\ \A i \in Ids \ {cur} : IsActive(bundles[i]) =>
         /\ bundles[i].root \in DOMAIN dirs
         /\ dirs[bundles[i].root] = pre.dirs[bundles[i].root]
    /\ pre.bundles[cur] = Absent => (bundles = pre.bundles /\ dirs = pre.dirs)

\* an Active entry was removed while another identifier was Active
C21_Witness ==
  /\ JustRemoved
  /\ IsActive(pre.bundles[cur])
  /\ \E i \in Ids \ {cur} : IsActive(bundles[i])

(***************************************************************************)
(* C22.  DELETE /bundle/{id} for an identifier without a stored archive.   *)
(***************************************************************************)
NothingStored == pc = "respond" /\ ctx = "delete" /\ pre.store[cur] = NoArchive

\* C22 as stated: the DELETE of an identifier without an archive responds
\* with success and leaves registry and store as they were; a removal that
\* fails ends the DELETE before the registry is touched.
C22_AsStated ==
  /\ NothingStored => (hres.ok /\ bundles = pre.bundles /\ store = pre.store)
  /\ (pc = "respond" /\ ctx = "delete" /\ FailedAt("store_remove")) =>
       (~Ran("mgr_remove") /\ bundles = pre.bundles)

\* C22 as amended: storage.remove of a missing archive returns Ok, so the
\* DELETE goes on to the registry and the reconciliations, leaves registry,
\* store and directories as they were, and responds with success unless the
\* proxy push or the ingress pass returned an error; a removal that fails
\* is the failure of an existing archive's deletion and ends the DELETE
\* with the error, nothing changed.
C22_IdempotentDelete ==
  /\ NothingStored =>
       /\ Passed("store_remove") /\ Passed("mgr_remove")
       /\ bundles = pre.bundles /\ store = pre.store /\ dirs = pre.dirs
       /\ hres.ok <=> ~(FailedAt("proxy") \/ FailedAt("ingress"))
       /\ hres.ok => (hres.body = "Deleted" /\ status_code = 200)
  /\ (pc = "respond" /\ ctx = "delete" /\ FailedAt("store_remove")) =>
       /\ pre.store[cur] # NoArchive
       /\ steps = <<<<"store_remove", "err">>>>
       /\ bundles = pre.bundles /\ store = pre.store /\ dirs = pre.dirs
       /\ status_code = 500

\* a DELETE of an identifier without archive, answered "Deleted", while
\* another identifier is Active
C22_Witness ==
  /\ NothingStored /\ hres.ok
  /\ \E i \in Ids \ {cur} : IsActive(bundles[i])

(***************************************************************************)
(* C23.  hosts() has exactly one HostConfig per Active entry, with the     *)
(* entry's domain, its own extraction directory and its fallback, and      *)
(* domains() exactly one domain per Active entry; Failed entries yield     *)
(* nothing; and the hosts of the configuration the proxy accepted have     *)
(* pairwise distinct domains, as have the hosts and the domains to push.   *)
(***************************************************************************)
ActiveIds == {i \in Ids : IsActive(bundles[i])}

C23_Projections ==
  /\ Cardinality(hosts) = Cardinality(ActiveIds)
  /\ Cardinality(domains) = Cardinality(ActiveIds)
  /\ \A i \in ActiveIds :
       /\ bundles[i].config.domain \in domains
       /\ \E h \in hosts : /\ h.domain = bundles[i].config.domain
                           /\ h.root = bundles[i].root
                           /\ h.fallback = bundles[i].config.fallback
                           /\ \A j \in ActiveIds \ {i} : h.root # bundles[j].root
  /\ \A h \in hosts : \E i \in ActiveIds : h.domain = bundles[i].config.domain
  /\ \A d \in domains : \E i \in ActiveIds : d = bundles[i].config.domain
  /\ \A h1 \in hosts, h2 \in hosts : h1 # h2 => h1.domain # h2.domain
  /\ \A h1 \in caddy, h2 \in caddy : h1 # h2 => h1.domain # h2.domain

\* two Active entries pushed to the proxy, or one next to a Failed entry
C23_Witness ==
  /\ pc = "idle"
  /\ caddy = hosts
  /\ \/ Cardinality(ActiveIds) = 2
     \/ ActiveIds # {} /\ \E i \in Ids : bundles[i].kind = "Failed"

(***************************************************************************)
(* C24.  One request at a time: a request is taken up only when no request *)
(* is in hand and nothing of an earlier one is pending (no deploy frame,   *)
(* no ingress pass, no step), it stays the request in hand until its       *)
(* response, every step between belongs to it, and after startup the       *)
(* registry and the store change only in steps of the POST or DELETE in    *)
(* hand, and only for its identifier.                                      *)
(***************************************************************************)
Quiet == dep = NoFrame /\ pass = NoPass /\ rc = NoReload /\ steps = <<>> /\ cur = NoId

C24_Step ==
  /\ pc = "idle" => (Quiet /\ ctx = "none" /\ req = NoReq)
  /\ req' # req =>
       \/ pc = "idle" /\ req' # NoReq /\ nreq' = nreq + 1 /\ pc' # "idle"
       \/ pc = "respond" /\ req' = NoReq /\ pc' = "idle"
  /\ (pc' = "idle" /\ pc # "idle") => pc \in {"respond", "listen"}
  /\ nreq' # nreq => (pc = "idle" /\ req' # req)
  /\ (ctx # "new" /\ (bundles' # bundles \/ store' # store \/ dirs' # dirs)) =>
       /\ ctx \in {"post", "delete"} /\ req' = req /\ cur' = cur /\ cur # NoId
       /\ \A i \in Ids \ {cur} : bundles'[i] = bundles[i] /\ store'[i] = store[i]

C24_Serialized == [][C24_Step]_vars

\* the second request of a run has changed the registry and is at its response
C24_Witness ==
  /\ pc = "respond" /\ nreq = 2
  /\ ctx \in {"post", "delete"}
  /\ bundles # pre.bundles

(***************************************************************************)
(* C25.  Whenever the server is between requests or at a response, every   *)
(* identifier with an entry in the registry, Active or Failed, has an      *)
(* archive in the store.                                                   *)
(***************************************************************************)
C25_RegistryWithinStore ==
  pc \in {"listen", "idle", "respond"} =>
    \A i \in Ids : bundles[i] # Absent => (store[i] # NoArchive /\ i \in enumerate)

\* between requests after two requests, every identifier with an entry, one
\* of them Active
C25_Witness ==
  /\ pc = "idle" /\ nreq = 2
  /\ \A i \in Ids : bundles[i] # Absent
  /\ \E i \in Ids : IsActive(bundles[i])

(***************************************************************************)
(* C26.  The Active entries against the archives in the store.             *)
(***************************************************************************)
\* C26 as stated: between requests, the config of every Active entry is the
\* one metadata reads from the archive stored for its identifier, and its
\* directory holds what unpack extracts from that archive.
C26_AsStated ==
  pc = "idle" =>
    \A i \in Ids : IsActive(bundles[i]) =>
      /\ metadata(i).ok
      /\ metadata(i).config = bundles[i].config
      /\ unpack(i).ok
      /\ dirs[bundles[i].root].site = unpack(i).site

(***************************************************************************)
(* C27.  The roots of the configuration the proxy accepted last.           *)
(***************************************************************************)
\* C27 as stated: between requests, every directory that a host of the last
\* accepted configuration has as its root exists.
C27_AsStated == pc = "idle" => \A h \in caddy : h.root \in DOMAIN dirs

(***************************************************************************)
(* C28.  What the second command of the update script deletes.             *)
(***************************************************************************)
\* C28 as stated: the deletion of a pass leaves the object of every domain
\* that is Active at the time of the pass in place, whether or not the
\* apply of that pass succeeded.
C28_Step ==
  pc = "ingress_delete" =>
    \A d \in domains : ingress[d] # 0 => ingress'[d] # 0

C28_AsStated == [][C28_Step]_vars

====
